---- MODULE Spec2Model ----
(***************************************************************************)
(* Model of the "15 Day Python Challenge" demos.                           *)
(*                                                                         *)
(* Part 1: the snake game (Python Challenge 15/snake.py): the SnakeGame    *)
(* engine and the Streamlit shell main() that drives it.  Streamlit runs   *)
(* main() from top to bottom once per event (a button click, or the        *)
(* st_autorefresh timer); one such script run is one action here.          *)
(***************************************************************************)
EXTENDS Integers, Sequences, FiniteSets, TLC

\* ------------------------------------------------------------- bounds
\* GameConfig is a parameter of SnakeGame; the shell uses the defaults
\* (20 x 15), the model a small board on which walls, the snake's own
\* body and a full board are all within reach.
board_width == 4
board_height == 2
\* The wall clock (time.time()) is counted in steps of QuantumMs
\* milliseconds and stops at MaxTime steps.
QuantumMs == 400
MaxTime == 5

\* ------------------------------------------------------------- types
Directions == {"UP", "DOWN", "LEFT", "RIGHT"}

\* Direction(Enum): the unit vector of each direction.
DirVec(d) ==
    CASE d = "UP" -> <<0, -1>>
      [] d = "DOWN" -> <<0, 1>>
      [] d = "LEFT" -> <<-1, 0>>
      [] d = "RIGHT" -> <<1, 0>>

\* Position.__add__
PosAdd(pos, d) == <<pos[1] + DirVec(d)[1], pos[2] + DirVec(d)[2]>>

\* GameConfig.initial_length
initial_length == 3

\* GameConfig.speeds: milliseconds between moves
Difficulties == {"Easy", "Medium", "Hard", "Expert"}
speeds(difficulty) ==
    CASE difficulty = "Easy" -> 1000
      [] difficulty = "Medium" -> 600
      [] difficulty = "Hard" -> 300
      [] difficulty = "Expert" -> 150

Cells == {<<x, y>> : x \in 0..(board_width - 1), y \in 0..(board_height - 1)}

\* the positions held by a list of segments
Segments(snake) == {snake[i] : i \in 1..Len(snake)}

\* ------------------------------------------------------------- state
VARIABLES
    game,            \* st.session_state.game: the SnakeGame instance
    stats,           \* st.session_state.game_stats: GameStats (all time)
    last_move_time,  \* st.session_state.last_move_time
    now,             \* time.time(), in steps of QuantumMs
    pc,              \* "idle" between script runs, "generate_food" while
                     \* a run is inside generate_food's while True loop
    config,          \* the GameConfig handed to SnakeGame(config)
    ctor,            \* where the call SnakeGame(config) is: "call" before
                     \* it, "returned", "generate_food" while it is inside
                     \* generate_food's loop, or the exception it raised
    instance,        \* the instances SnakeGame(config) returned: none or one
    people,          \* st.session_state.people: the names, in order
    expenses,        \* st.session_state.expenses: [payer, amount], in order
    results,         \* the argument of optimize_payments: [name, balance]
                     \* in the order of the dict
    opt,             \* the call of optimize_payments: its position pc and
                     \* its locals debtors, creditors, i, j, transactions
    ttt,             \* tic-tac-toe.py: st.session_state
    watch,           \* timer.py: st.session_state
    clock            \* timer.py: perf_counter(), in whole ticks

\* the state of the snake game, of a single call SnakeGame(config), and
\* of the expense splitter
snake_vars == <<game, stats, last_move_time, now, pc>>
create_vars == <<config, ctor, instance>>
split_vars == <<people, expenses, results, opt>>
play_vars == <<ttt, watch, clock>>

vars == <<snake_vars, create_vars, split_vars, play_vars>>

\* ------------------------------------------------------------ SnakeGame
\* generate_food without the test against the snake
generate_food_anywhere(snake) == Cells

\* generate_food: the loop draws cells at random until one is not in the
\* snake, so it can return any free cell, and none when there is none.
generate_food(snake) == Cells \ Segments(snake)

\* is_valid_position without the lower bounds
is_valid_position_upper_only(pos) ==
    pos[1] < board_width /\ pos[2] < board_height

\* is_valid_position with <= for <: one column and one row too many
is_valid_position_inclusive(pos) ==
    /\ 0 <= pos[1] /\ pos[1] <= board_width
    /\ 0 <= pos[2] /\ pos[2] <= board_height

\* is_valid_position
is_valid_position(pos) ==
    /\ 0 <= pos[1] /\ pos[1] < board_width
    /\ 0 <= pos[2] /\ pos[2] < board_height

\* a self collision test that looks at the head only
hits_snake_head_only(new_head, snake) == new_head = snake[1]

\* a self collision test that leaves the tail cell out
hits_snake_skips_tail(new_head, snake) ==
    new_head \in Segments(SubSeq(snake, 1, Len(snake) - 1))

\* the self collision test of move_snake: new_head in self.snake
hits_snake(new_head, snake) == new_head \in Segments(snake)

\* the opposite table of change_direction
opposite(d) ==
    CASE d = "UP" -> "DOWN"
      [] d = "DOWN" -> "UP"
      [] d = "LEFT" -> "RIGHT"
      [] d = "RIGHT" -> "LEFT"

\* change_direction without the test against the opposite
change_direction_unchecked(g, new_direction) ==
    [g EXCEPT !.direction = new_direction]

\* change_direction
change_direction(g, new_direction) ==
    IF new_direction # opposite(g.direction)
    THEN [g EXCEPT !.direction = new_direction]
    ELSE g

\* reset_game laying the snake out tail first
initial_snake_reversed ==
    LET center_x == board_width \div 2
        center_y == board_height \div 2
    IN  << <<center_x - 2, center_y>>, <<center_x - 1, center_y>>,
           <<center_x, center_y>> >>

\* reset_game, food aside: three segments on the middle row, head at the
\* centre, facing right.
initial_snake ==
    LET center_x == board_width \div 2
        center_y == board_height \div 2
    IN  << <<center_x, center_y>>, <<center_x - 1, center_y>>,
           <<center_x - 2, center_y>> >>

\* SnakeGame(config): every instance reset_game can produce at time t.
new_games(t) ==
    {[snake |-> initial_snake, direction |-> "RIGHT", food |-> f,
      score |-> 0, food_eaten |-> 0, start_time |-> t, moves_made |-> 0,
      game_state |-> "playing"] : f \in generate_food(initial_snake)}

\* move_snake popping the tail on every move
grown_always_pops(snake, new_head, ate) ==
    <<new_head>> \o SubSeq(snake, 1, Len(snake) - 1)

\* the snake after move_snake's insert and, unless food was eaten, pop
grown(snake, new_head, ate) ==
    IF ate THEN <<new_head>> \o snake
    ELSE <<new_head>> \o SubSeq(snake, 1, Len(snake) - 1)

\* one point per food
scored_by_one(score) == score + 1

\* move_snake, "Check food consumption": self.score += 10
scored(score) == score + 10

\* move_snake: the set of its outcomes [ret, game, hung].  ret is the
\* returned flag; hung says that the call is still inside generate_food,
\* with no free cell to find.
move_snake(g) ==
    LET head == g.snake[1]
        new_head == PosAdd(head, g.direction)
    IN  IF ~is_valid_position(new_head)
        THEN {[ret |-> FALSE, game |-> g, hung |-> FALSE]}
        ELSE IF hits_snake(new_head, g.snake)
        THEN {[ret |-> FALSE, game |-> g, hung |-> FALSE]}
        ELSE IF new_head = g.food
        THEN LET snake1 == grown(g.snake, new_head, TRUE)
                 g1 == [g EXCEPT !.snake = snake1,
                                 !.moves_made = @ + 1,
                                 !.score = scored(@),
                                 !.food_eaten = @ + 1]
             IN  IF generate_food(snake1) = {}
                 THEN {[ret |-> TRUE, game |-> g1, hung |-> TRUE]}
                 ELSE {[ret |-> TRUE, game |-> [g1 EXCEPT !.food = f],
                        hung |-> FALSE] : f \in generate_food(snake1)}
        ELSE {[ret |-> TRUE,
               game |-> [g EXCEPT !.snake = grown(g.snake, new_head, FALSE),
                                  !.moves_made = @ + 1],
               hung |-> FALSE]}

\* ------------------------------------------------------------ the shell
\* a GameStats() as load_stats first stores it
new_stats ==
    [score |-> 0, food_eaten |-> 0, time_played |-> 0, moves_made |-> 0,
     high_score |-> 0, games_played |-> 0]

\* get_game_time, in clock steps
get_game_time(g) == now - g.start_time

\* "Update statistics" storing the latest score as the high score
update_stats_latest_score(st, g) ==
    [st EXCEPT !.high_score = g.score,
               !.games_played = @ + 1,
               !.food_eaten = @ + g.food_eaten,
               !.moves_made = @ + g.moves_made,
               !.time_played = @ + get_game_time(g)]

\* main, "Update statistics": the all-time statistics after game g ended
update_stats(st, g) ==
    [st EXCEPT !.high_score = IF g.score > @ THEN g.score ELSE @,
               !.games_played = @ + 1,
               !.food_eaten = @ + g.food_eaten,
               !.moves_made = @ + g.moves_made,
               !.time_played = @ + get_game_time(g)]

\* main: time_since_last_move >= speed_ms * 0.8, in tenths of a millisecond
move_due(difficulty) ==
    (now - last_move_time) * QuantumMs * 10 >= speeds(difficulty) * 8

\* whether a move is due in a run that starts now: that depends on the
\* difficulty chosen in the select box, which the player sets at will
DueNow == {move_due(difficulty) : difficulty \in Difficulties}

\* the auto-move without the test of the game state
may_move_any_state(g, due) == due

\* main: the two tests around move_snake, the game is playing and a move
\* is due (due: the value of time_since_last_move >= speed_ms * 0.8)
may_move(g, due) ==
    g.game_state = "playing" /\ due

\* main, "Move snake automatically": what one run leaves behind after the
\* auto-move section, as [game, stats, last_move_time, pc].
auto_move(g, st, due) ==
    IF may_move(g, due)
    THEN {IF r.hung
          THEN [game |-> r.game, stats |-> st,
                last_move_time |-> last_move_time, pc |-> "generate_food"]
          ELSE IF ~r.ret
          THEN [game |-> [r.game EXCEPT !.game_state = "game_over"],
                stats |-> update_stats(st, r.game),
                last_move_time |-> now, pc |-> "idle"]
          ELSE [game |-> r.game, stats |-> st,
                last_move_time |-> now, pc |-> "idle"]
          : r \in move_snake(g)}
    ELSE {[game |-> g, stats |-> st, last_move_time |-> last_move_time,
           pc |-> "idle"]}

\* main, "Main game area": whether a run that ends with game g and
\* statistics st shows "New High Score!"
new_high_score_notice(g, st) ==
    g.game_state = "game_over" /\ g.score > st.high_score

\* a direction button without the test of the game state
direction_button_unguarded(o, d) ==
    IF o.pc = "idle"
    THEN [o EXCEPT !.game = change_direction(o.game, d)]
    ELSE o

\* main, "Direction Controls": a direction button pressed in this run
direction_button(o, d) ==
    IF o.pc = "idle" /\ o.game.game_state = "playing"
    THEN [o EXCEPT !.game = change_direction(o.game, d)]
    ELSE o

\* a run leaves the outcome o behind
Leaves(o) ==
    /\ game' = o.game
    /\ stats' = o.stats
    /\ last_move_time' = o.last_move_time
    /\ pc' = o.pc

\* tic-tac-toe.py, "Session State": the session as the first run sets it
\* up.  The board is indexed 0..8 as in the source; None is "None" for
\* winner and the empty tuple for winning_line.
new_session ==
    [board |-> [idx \in 0..8 |-> ""], current |-> "X", game_over |-> FALSE,
     winner |-> "None", winning_line |-> <<>>, scores |-> [X |-> 0, O |-> 0],
     mode |-> "Two-Player", computer_symbol |-> "O"]

\* timer.py, _init: the stopwatch as the first run sets it up; start_t is
\* the set of its values, empty for None
new_watch ==
    [running |-> FALSE, start_t |-> {}, elapsed_fixed |-> 0, laps |-> <<>>]

\* each program runs in a process of its own: while one is looked at, the
\* others stay as they start
no_ttt == ttt = new_session

no_watch == watch = new_watch /\ clock = 0

no_create ==
    /\ config = [board_width |-> board_width, board_height |-> board_height,
                 initial_length |-> initial_length]
    /\ ctor = "returned"
    /\ instance = {}

no_split ==
    /\ people = <<>>
    /\ expenses = <<>>
    /\ results = <<>>
    /\ opt = [pc |-> "idle", debtors |-> <<>>, creditors |-> <<>>,
              i |-> 0, j |-> 0, transactions |-> <<>>]

Init ==
    /\ now = 0
    /\ game \in new_games(0)
    /\ stats = new_stats
    /\ last_move_time = 0
    /\ pc = "idle"
    /\ no_create
    /\ no_split
    /\ no_ttt
    /\ no_watch

\* the clock advances between script runs
TimePasses ==
    /\ pc = "idle"
    /\ now < MaxTime
    /\ now' = now + 1
    /\ UNCHANGED <<game, stats, last_move_time, pc>>
    /\ UNCHANGED <<create_vars, split_vars, play_vars>>

\* a run with no button pressed: the st_autorefresh timer, or a new
\* choice in the difficulty box
AutoRefresh(due) ==
    /\ pc = "idle"
    /\ \E o \in auto_move(game, stats, due) : Leaves(o)
    /\ UNCHANGED <<now, create_vars, split_vars, play_vars>>

\* "New Game": a fresh instance, then st.rerun(); the run that follows
\* finds time_since_last_move = 0 and no button pressed, and changes nothing
ClickNewGame ==
    /\ pc = "idle"
    /\ game' \in new_games(now)
    /\ last_move_time' = now
    /\ UNCHANGED <<stats, now, pc, create_vars, split_vars, play_vars>>

\* "Pause": the button exists in a run that finds the game playing; the
\* run then stops at st.rerun().  In any other state the run goes on with
\* no button pressed.
ClickPause(due) ==
    /\ pc = "idle"
    /\ IF game.game_state = "playing"
       THEN /\ game' = [game EXCEPT !.game_state = "paused"]
            /\ UNCHANGED <<stats, last_move_time, pc>>
       ELSE \E o \in auto_move(game, stats, due) : Leaves(o)
    /\ UNCHANGED <<now, create_vars, split_vars, play_vars>>

\* "Resume": the button exists in a run that finds the game paused
ClickResume(due) ==
    /\ pc = "idle"
    /\ IF game.game_state = "paused"
       THEN /\ game' = [game EXCEPT !.game_state = "playing"]
            /\ last_move_time' = now
            /\ UNCHANGED <<stats, pc>>
       ELSE \E o \in auto_move(game, stats, due) : Leaves(o)
    /\ UNCHANGED <<now, create_vars, split_vars, play_vars>>

\* a direction button: the run first auto-moves, then handles the button
ClickDirection(d, due) ==
    /\ pc = "idle"
    /\ UNCHANGED <<now, create_vars, split_vars, play_vars>>
    /\ \E o \in auto_move(game, stats, due) :
           Leaves(direction_button(o, d))

\* generate_food with no free cell: one more draw, one more miss
GenerateFoodRetry ==
    /\ pc = "generate_food"
    /\ generate_food(game.snake) = {}
    /\ UNCHANGED vars

Next ==
    \/ TimePasses
    \/ \E due \in DueNow : AutoRefresh(due)
    \/ ClickNewGame
    \/ \E due \in DueNow : ClickPause(due)
    \/ \E due \in DueNow : ClickResume(due)
    \/ \E d \in Directions, due \in DueNow : ClickDirection(d, due)
    \/ GenerateFoodRetry

Spec == Init /\ [][Next]_vars

\* ------------------------------------------------- SnakeGame(config)
\* The constructor on its own, called once with any configuration whose
\* board is at most MaxBoard cells wide and high.
MaxBoard == 5

Configs ==
    {[board_width |-> w, board_height |-> h,
      initial_length |-> initial_length] : w, h \in 0..MaxBoard}

\* the cells (x, y) with 0 <= x < board_width and 0 <= y < board_height
board(c) ==
    {<<x, y>> : x \in 0..(c.board_width - 1), y \in 0..(c.board_height - 1)}

\* reset_game: the snake it lays out for configuration c
reset_snake(c) ==
    LET center_x == c.board_width \div 2
        center_y == c.board_height \div 2
    IN  << <<center_x, center_y>>, <<center_x - 1, center_y>>,
           <<center_x - 2, center_y>> >>

\* SnakeGame(c) called at time t: the set of its outcomes [ctor, instance].
\* __init__ stores the configuration and calls reset_game, neither tests
\* it.  generate_food's random.randint(0, n - 1) raises ValueError for
\* n <= 0; its loop has no end when the snake covers the board.
SnakeGame(c, t) ==
    IF c.board_width <= 0 \/ c.board_height <= 0
    THEN {[ctor |-> "ValueError", instance |-> {}]}
    ELSE IF board(c) \ Segments(reset_snake(c)) = {}
    THEN {[ctor |-> "generate_food", instance |-> {}]}
    ELSE {[ctor |-> "returned",
           instance |-> {[snake |-> reset_snake(c), direction |-> "RIGHT",
                          food |-> f, score |-> 0, food_eaten |-> 0,
                          start_time |-> t, moves_made |-> 0,
                          game_state |-> "playing"]}]
          : f \in board(c) \ Segments(reset_snake(c))}

\* no snake game is being played
no_snake ==
    /\ now = 0
    /\ game = CHOOSE g \in new_games(0) : TRUE
    /\ stats = new_stats
    /\ last_move_time = 0
    /\ pc = "idle"

InitCreate ==
    /\ config \in Configs
    /\ ctor = "call"
    /\ instance = {}
    /\ no_snake
    /\ no_split
    /\ no_ttt
    /\ no_watch

\* the call SnakeGame(config)
Construct ==
    /\ ctor = "call"
    /\ \E o \in SnakeGame(config, now) :
           /\ ctor' = o.ctor
           /\ instance' = o.instance
    /\ UNCHANGED <<config, snake_vars, split_vars, play_vars>>

\* generate_food with no free cell: one more draw, one more miss
ConstructRetry ==
    /\ ctor = "generate_food"
    /\ board(config) \ Segments(reset_snake(config)) = {}
    /\ UNCHANGED vars

NextCreate ==
    \/ Construct
    \/ ConstructRetry

SpecCreate == InitCreate /\ [][NextCreate]_vars


\* ------------------------------------------------ expense_splitter.py
\* Part 2: the expense splitter (Python Challenge Day 2): the settlement
\* optimizer optimize_payments, one step of its loop per action, and the
\* "Advanced Split" page that feeds it.  Money is counted exactly, in
\* hundredths of a rupee; the rounding of Python's floats is left out.
MaxPeople == 4      \* names are 1..MaxPeople
MaxBalance == 4     \* balances handed to optimize_payments directly
MaxExpenses == 2    \* length of the expense list
MaxAmount == 2      \* amounts entered are 1..MaxAmount units

\* the 0.01 of optimize_payments' two tests, in hundredths
Tolerance == 1

Names == 1..MaxPeople

\* ---- optimize_payments
\* the debtors test with 0.01 for -0.01
debtors_of_below_tolerance(res) ==
    LET F[k \in 0..Len(res)] ==
            IF k = 0 THEN <<>>
            ELSE IF res[k].balance < Tolerance
                 THEN Append(F[k - 1], [name |-> res[k].name,
                                        amount |-> -res[k].balance])
                 ELSE F[k - 1]
    IN  F[Len(res)]

\* the first loop, debtors: who has balance < -0.01, with what is owed
debtors_of(res) ==
    LET F[k \in 0..Len(res)] ==
            IF k = 0 THEN <<>>
            ELSE IF res[k].balance < -Tolerance
                 THEN Append(F[k - 1], [name |-> res[k].name,
                                        amount |-> -res[k].balance])
                 ELSE F[k - 1]
    IN  F[Len(res)]

\* the first loop, creditors: who has balance > 0.01, with what is due
creditors_of(res) ==
    LET F[k \in 0..Len(res)] ==
            IF k = 0 THEN <<>>
            ELSE IF ~(res[k].balance < -Tolerance)
                    /\ res[k].balance > Tolerance
                 THEN Append(F[k - 1], [name |-> res[k].name,
                                        amount |-> res[k].balance])
                 ELSE F[k - 1]
    IN  F[Len(res)]

\* a descending sort that puts entries of equal amount in reverse order
sort_desc_ties_reversed(xs) ==
    LET insert(sorted, e) ==
            LET n == Cardinality({k \in 1..Len(sorted) :
                                     sorted[k].amount > e.amount})
            IN  SubSeq(sorted, 1, n) \o <<e>>
                    \o SubSeq(sorted, n + 1, Len(sorted))
        F[k \in 0..Len(xs)] ==
            IF k = 0 THEN <<>> ELSE insert(F[k - 1], xs[k])
    IN  F[Len(xs)]

\* no sort at all
sort_desc_skipped(xs) == xs

\* list.sort(key=amount, reverse=True): largest first, entries of equal
\* amount in the order they had (the sort is stable)
sort_desc(xs) ==
    LET insert(sorted, e) ==
            LET n == Cardinality({k \in 1..Len(sorted) :
                                     sorted[k].amount >= e.amount})
            IN  SubSeq(sorted, 1, n) \o <<e>>
                    \o SubSeq(sorted, n + 1, Len(sorted))
        F[k \in 0..Len(xs)] ==
            IF k = 0 THEN <<>> ELSE insert(F[k - 1], xs[k])
    IN  F[Len(xs)]

\* optimize_payments up to its loop
opt_start(res) ==
    [pc |-> "loop", debtors |-> sort_desc(debtors_of(res)),
     creditors |-> sort_desc(creditors_of(res)),
     i |-> 0, j |-> 0, transactions |-> <<>>]

\* while i < len(debtors) and j < len(creditors)
loop_test(o) == o.i < Len(o.debtors) /\ o.j < Len(o.creditors)

\* the loop body with j += 1 missing from the branch debt > credit
loop_body_keeps_creditor(o) ==
    LET debt == o.debtors[o.i + 1].amount
        credit == o.creditors[o.j + 1].amount
        transfer(amount) ==
            [from |-> o.debtors[o.i + 1].name,
             to |-> o.creditors[o.j + 1].name, amount |-> amount]
    IN  IF debt < credit
        THEN [o EXCEPT !.transactions = Append(@, transfer(debt)),
                       !.creditors[o.j + 1].amount = @ - debt,
                       !.i = @ + 1]
        ELSE IF debt > credit
        THEN [o EXCEPT !.transactions = Append(@, transfer(credit)),
                       !.debtors[o.i + 1].amount = @ - credit]
        ELSE [o EXCEPT !.transactions = Append(@, transfer(debt)),
                       !.i = @ + 1,
                       !.j = @ + 1]

\* the loop body paying the whole debt in the branch debt > credit
loop_body_pays_debt(o) ==
    LET debt == o.debtors[o.i + 1].amount
        credit == o.creditors[o.j + 1].amount
        transfer(amount) ==
            [from |-> o.debtors[o.i + 1].name,
             to |-> o.creditors[o.j + 1].name, amount |-> amount]
    IN  IF debt < credit
        THEN [o EXCEPT !.transactions = Append(@, transfer(debt)),
                       !.creditors[o.j + 1].amount = @ - debt,
                       !.i = @ + 1]
        ELSE IF debt > credit
        THEN [o EXCEPT !.transactions = Append(@, transfer(debt)),
                       !.debtors[o.i + 1].amount = @ - credit,
                       !.j = @ + 1]
        ELSE [o EXCEPT !.transactions = Append(@, transfer(debt)),
                       !.i = @ + 1,
                       !.j = @ + 1]

\* one pass of the loop body (i and j count from 0 as in the source)
loop_body(o) ==
    LET debt == o.debtors[o.i + 1].amount
        credit == o.creditors[o.j + 1].amount
        transfer(amount) ==
            [from |-> o.debtors[o.i + 1].name,
             to |-> o.creditors[o.j + 1].name, amount |-> amount]
    IN  IF debt < credit
        THEN [o EXCEPT !.transactions = Append(@, transfer(debt)),
                       !.creditors[o.j + 1].amount = @ - debt,
                       !.i = @ + 1]
        ELSE IF debt > credit
        THEN [o EXCEPT !.transactions = Append(@, transfer(credit)),
                       !.debtors[o.i + 1].amount = @ - credit,
                       !.j = @ + 1]
        ELSE [o EXCEPT !.transactions = Append(@, transfer(debt)),
                       !.i = @ + 1,
                       !.j = @ + 1]

\* optimize_payments(res) from call to return: the loop run until its
\* test fails (every pass moves i or j on, so that is after at most
\* len(debtors) + len(creditors) passes), then return transactions
optimize_payments(res) ==
    LET o0 == opt_start(res)
        F[n \in 0..(Len(o0.debtors) + Len(o0.creditors))] ==
            IF n = 0 THEN o0
            ELSE IF loop_test(F[n - 1]) THEN loop_body(F[n - 1])
                 ELSE F[n - 1]
    IN  F[Len(o0.debtors) + Len(o0.creditors)].transactions

\* optimize_payments(results) is called: the lists are built and sorted
OptStart ==
    /\ opt.pc = "call"
    /\ opt' = opt_start(results)
    /\ UNCHANGED <<people, expenses, results>>
    /\ UNCHANGED <<snake_vars, create_vars, play_vars>>

\* one pass of the while loop
OptStep ==
    /\ opt.pc = "loop"
    /\ loop_test(opt)
    /\ opt' = loop_body(opt)
    /\ UNCHANGED <<people, expenses, results>>
    /\ UNCHANGED <<snake_vars, create_vars, play_vars>>

\* the loop test fails: return transactions
OptReturn ==
    /\ opt.pc = "loop"
    /\ ~loop_test(opt)
    /\ opt' = [opt EXCEPT !.pc = "done"]
    /\ UNCHANGED <<people, expenses, results>>
    /\ UNCHANGED <<snake_vars, create_vars, play_vars>>

\* the arguments optimize_payments is called with directly: one balance
\* for each of the first n names
BalanceSets ==
    UNION {[1..n -> (-MaxBalance)..MaxBalance] : n \in 0..MaxPeople}

InitSettle ==
    /\ \E b \in BalanceSets :
           results = [k \in 1..Len(b) |-> [name |-> k, balance |-> b[k]]]
    /\ opt = [pc |-> "call", debtors |-> <<>>, creditors |-> <<>>,
              i |-> 0, j |-> 0, transactions |-> <<>>]
    /\ people = <<>>
    /\ expenses = <<>>
    /\ no_snake
    /\ no_create
    /\ no_ttt
    /\ no_watch

NextSettle ==
    \/ OptStart
    \/ OptStep
    \/ OptReturn

SpecSettle == InitSettle /\ [][NextSettle]_vars

\* ---- the "Advanced Split" page
\* sum([exp['amount'] for exp in exps])
sum_amounts(exps) ==
    LET F[k \in 0..Len(exps)] ==
            IF k = 0 THEN 0 ELSE F[k - 1] + exps[k].amount
    IN  F[Len(exps)]

\* amounts are entered in a unit that every head count divides, so that
\* total / len(people) is exact
AmountUnit ==
    LET F[k \in 0..MaxPeople] == IF k = 0 THEN 1 ELSE k * F[k - 1]
    IN  F[MaxPeople]

\* calculate_advanced_split(expenses, people, "equal"): the balances, in
\* the order of people
calculate_advanced_split(exps, ppl) ==
    LET total == sum_amounts(exps)
        per_person == total \div Len(ppl)
    IN  [k \in 1..Len(ppl) |->
            [name |-> ppl[k],
             balance |->
                 sum_amounts(SelectSeq(exps, LAMBDA e : e.payer = ppl[k]))
                     - per_person]]

\* between two calculations the page holds people and expenses only
page_idle ==
    /\ results' = <<>>
    /\ opt' = [pc |-> "idle", debtors |-> <<>>, creditors |-> <<>>,
               i |-> 0, j |-> 0, transactions |-> <<>>]

\* "Add Person": a name that is not empty and not yet in the list
AddPerson(new_person_name) ==
    /\ opt.pc \in {"idle", "done"}
    /\ Len(people) < MaxPeople
    /\ \A k \in 1..Len(people) : people[k] # new_person_name
    /\ people' = Append(people, new_person_name)
    /\ page_idle
    /\ UNCHANGED <<expenses, snake_vars, create_vars, play_vars>>

\* the remove button of person idx: people.pop(idx); the expenses stay
RemovePerson(idx) ==
    /\ opt.pc \in {"idle", "done"}
    /\ idx \in 1..Len(people)
    /\ people' = SubSeq(people, 1, idx - 1)
                    \o SubSeq(people, idx + 1, Len(people))
    /\ page_idle
    /\ UNCHANGED <<expenses, snake_vars, create_vars, play_vars>>

\* "Add Expense": shown while there are people; the payer is one of them
AddExpense(description, amount, payer) ==
    /\ opt.pc \in {"idle", "done"}
    /\ Len(expenses) < MaxExpenses
    /\ \E k \in 1..Len(people) : people[k] = payer
    /\ description # "" /\ amount > 0
    /\ expenses' = Append(expenses, [payer |-> payer, amount |-> amount])
    /\ page_idle
    /\ UNCHANGED <<people, snake_vars, create_vars, play_vars>>

\* "Calculate Split": shown while there are people and expenses; the
\* balances of the equal split go to optimize_payments
CalculateSplit ==
    /\ opt.pc \in {"idle", "done"}
    /\ people # <<>> /\ expenses # <<>>
    /\ results' = calculate_advanced_split(expenses, people)
    /\ opt' = [pc |-> "call", debtors |-> <<>>, creditors |-> <<>>,
               i |-> 0, j |-> 0, transactions |-> <<>>]
    /\ UNCHANGED <<people, expenses, snake_vars, create_vars, play_vars>>

\* "Reset All Data"
ResetAllData ==
    /\ opt.pc \in {"idle", "done"}
    /\ people' = <<>>
    /\ expenses' = <<>>
    /\ page_idle
    /\ UNCHANGED <<snake_vars, create_vars, play_vars>>

InitSplit ==
    /\ no_split
    /\ no_snake
    /\ no_create
    /\ no_ttt
    /\ no_watch

NextSplit ==
    \/ \E new_person_name \in Names : AddPerson(new_person_name)
    \/ \E idx \in 1..MaxPeople : RemovePerson(idx)
    \/ \E description \in {"", "Dinner"}, n \in 1..MaxAmount,
          payer \in Names : AddExpense(description, n * AmountUnit, payer)
    \/ CalculateSplit
    \/ ResetAllData
    \/ OptStart
    \/ OptStep
    \/ OptReturn

SpecSplit == InitSplit /\ [][NextSplit]_vars

\* ----------------------------------------------------- tic-tac-toe.py
\* Part 3: tic-tac-toe (Python Challenge 12).  One script run per action;
\* a run that ends in st.rerun() is followed by a run with no widget
\* changed, which is the computer's turn when there is one.
MaxScore == 2       \* cells are played while both scores are below it

Symbols == {"X", "O"}
Modes == {"Two-Player", "Vs Computer (Random)"}

WIN_LINES ==
    << <<0, 1, 2>>, <<3, 4, 5>>, <<6, 7, 8>>,
       <<0, 3, 6>>, <<1, 4, 7>>, <<2, 5, 8>>,
       <<0, 4, 8>>, <<2, 4, 6>> >>

\* the test of check_winner for one line
line_won(grid, l) ==
    /\ grid[l[1]] # ""
    /\ grid[l[1]] = grid[l[2]]
    /\ grid[l[2]] = grid[l[3]]

\* check_winner: the first line of WIN_LINES held by one symbol
check_winner(grid) ==
    LET won == {n \in 1..Len(WIN_LINES) : line_won(grid, WIN_LINES[n])}
    IN  IF won = {} THEN [winner |-> "None", line |-> <<>>]
        ELSE LET n == CHOOSE m \in won : \A k \in won : m <= k
             IN  [winner |-> grid[WIN_LINES[n][1]], line |-> WIN_LINES[n]]

board_full(grid) == \A idx \in 0..8 : grid[idx] # ""

available_moves(grid) == {idx \in 0..8 : grid[idx] = ""}

\* place_move looking for a full board before it looks for a winner
place_move_full_first(ss, idx) ==
    IF ss.game_over \/ ss.board[idx] # "" THEN ss
    ELSE LET grid == [ss.board EXCEPT ![idx] = ss.current]
             found == check_winner(grid)
         IN  IF board_full(grid)
             THEN [ss EXCEPT !.board = grid, !.game_over = TRUE,
                             !.winner = "None", !.winning_line = <<>>]
             ELSE IF found.winner # "None"
             THEN [ss EXCEPT !.board = grid,
                             !.winner = found.winner,
                             !.winning_line = found.line,
                             !.game_over = TRUE,
                             !.scores[found.winner] = @ + 1]
             ELSE [ss EXCEPT !.board = grid,
                             !.current = IF @ = "X" THEN "O" ELSE "X"]

\* place_move(idx) on the session ss
place_move(ss, idx) ==
    IF ss.game_over \/ ss.board[idx] # "" THEN ss
    ELSE LET grid == [ss.board EXCEPT ![idx] = ss.current]
             found == check_winner(grid)
         IN  IF found.winner # "None"
             THEN [ss EXCEPT !.board = grid,
                             !.winner = found.winner,
                             !.winning_line = found.line,
                             !.game_over = TRUE,
                             !.scores[found.winner] = @ + 1]
             ELSE IF board_full(grid)
             THEN [ss EXCEPT !.board = grid, !.game_over = TRUE,
                             !.winner = "None", !.winning_line = <<>>]
             ELSE [ss EXCEPT !.board = grid,
                             !.current = IF @ = "X" THEN "O" ELSE "X"]

\* reset_board leaving the turn as it is
reset_board_keeps_turn(ss, hard) ==
    [ss EXCEPT !.board = [idx \in 0..8 |-> ""],
               !.game_over = FALSE,
               !.winner = "None",
               !.winning_line = <<>>,
               !.scores = IF hard THEN [X |-> 0, O |-> 0] ELSE @]

\* reset_board(hard) on the session ss
reset_board(ss, hard) ==
    [ss EXCEPT !.board = [idx \in 0..8 |-> ""],
               !.current = "X",
               !.game_over = FALSE,
               !.winner = "None",
               !.winning_line = <<>>,
               !.scores = IF hard THEN [X |-> 0, O |-> 0] ELSE @]

\* it is the computer's turn: the test of "Computer Turn", which is the
\* test of computer_move_random as well
computer_to_move(ss) ==
    /\ ~ss.game_over
    /\ ss.mode = "Vs Computer (Random)"
    /\ ss.current = ss.computer_symbol

\* "Board Buttons": the button of cell idx is disabled
disabled(ss, idx) ==
    \/ ss.board[idx] # ""
    \/ ss.game_over
    \/ ss.mode = "Vs Computer (Random)" /\ ss.current = ss.computer_symbol

\* the model follows play while both scores are below MaxScore
in_play == ttt.scores["X"] < MaxScore /\ ttt.scores["O"] < MaxScore

InitTicTacToe ==
    /\ ttt = new_session
    /\ no_watch
    /\ no_snake
    /\ no_create
    /\ no_split

\* the mode radio is set to the other mode: the board is reset; the run
\* that follows shows the "Computer plays as" radio in the computer mode,
\* at its first option "O" or at the symbol it was left at, and resets
\* the board once more if that is not the session's computer_symbol
ChangeMode(mode, comp) ==
    /\ mode # ttt.mode
    /\ LET ss == reset_board([ttt EXCEPT !.mode = mode], FALSE)
       IN  ttt' = IF mode = "Vs Computer (Random)"
                     /\ comp # ss.computer_symbol
                  THEN reset_board([ss EXCEPT !.computer_symbol = comp],
                                   FALSE)
                  ELSE ss
    /\ UNCHANGED <<watch, clock, snake_vars, create_vars, split_vars>>

\* the "Computer plays as" radio is set to the other symbol
ChangeComputerSymbol(comp) ==
    /\ ttt.mode = "Vs Computer (Random)"
    /\ comp # ttt.computer_symbol
    /\ ttt' = reset_board([ttt EXCEPT !.computer_symbol = comp], FALSE)
    /\ UNCHANGED <<watch, clock, snake_vars, create_vars, split_vars>>

\* "Reset Round"
ResetRound ==
    /\ ttt' = reset_board(ttt, FALSE)
    /\ UNCHANGED <<watch, clock, snake_vars, create_vars, split_vars>>

\* "Reset Scores"
ResetScores ==
    /\ ttt' = reset_board(ttt, TRUE)
    /\ UNCHANGED <<watch, clock, snake_vars, create_vars, split_vars>>

\* the button of cell idx, which is not disabled
ClickCell(idx) ==
    /\ in_play
    /\ ~disabled(ttt, idx)
    /\ ttt' = place_move(ttt, idx)
    /\ UNCHANGED <<watch, clock, snake_vars, create_vars, split_vars>>

\* "Computer Turn": computer_move_random places at a random free cell
ComputerTurn ==
    /\ in_play
    /\ computer_to_move(ttt)
    /\ \E idx \in available_moves(ttt.board) : ttt' = place_move(ttt, idx)
    /\ UNCHANGED <<watch, clock, snake_vars, create_vars, split_vars>>

NextTicTacToe ==
    \/ \E mode \in Modes, comp \in Symbols :
           /\ comp \in {"O", ttt.computer_symbol}
           /\ ChangeMode(mode, comp)
    \/ \E comp \in Symbols : ChangeComputerSymbol(comp)
    \/ ResetRound
    \/ ResetScores
    \/ \E idx \in 0..8 : ClickCell(idx)
    \/ ComputerTurn

SpecTicTacToe == InitTicTacToe /\ [][NextTicTacToe]_vars

\* ------------------------------------------------------------ timer.py
\* Part 4: the stopwatch (Python Challenge 14).  perf_counter() is the
\* variable clock, in whole ticks from 0; it moves between script runs.
MaxClock == 4       \* the clock stops at MaxClock ticks
MaxLaps == 2        \* laps recorded at most

\* now_elapsed() for the stopwatch w
now_elapsed(w) ==
    IF w.running /\ w.start_t # {}
    THEN w.elapsed_fixed + (clock - (CHOOSE t \in w.start_t : TRUE))
    ELSE w.elapsed_fixed

\* start()
start(w) ==
    IF ~w.running
    THEN [w EXCEPT !.running = TRUE, !.start_t = {clock}]
    ELSE w

\* stop() keeping the latest run only
stop_latest_run_only(w) ==
    IF w.running
    THEN [w EXCEPT !.elapsed_fixed = clock - (CHOOSE t \in w.start_t : TRUE),
                   !.running = FALSE,
                   !.start_t = {}]
    ELSE w

\* stop()
stop(w) ==
    IF w.running
    THEN [w EXCEPT !.elapsed_fixed = now_elapsed(w),
                   !.running = FALSE,
                   !.start_t = {}]
    ELSE w

\* reset()
reset(w) ==
    [w EXCEPT !.running = FALSE, !.start_t = {}, !.elapsed_fixed = 0,
              !.laps = <<>>]

\* lap(): one more entry (lap_no, lap_time, delta)
lap(w) ==
    LET t == now_elapsed(w)
        delta == IF w.laps # <<>> THEN t - w.laps[Len(w.laps)][2] ELSE t
    IN  [w EXCEPT !.laps = Append(@, <<Len(w.laps) + 1, t, delta>>)]

InitStopwatch ==
    /\ watch = new_watch
    /\ clock = 0
    /\ no_ttt
    /\ no_snake
    /\ no_create
    /\ no_split

\* time passes between two script runs
Tick ==
    /\ clock < MaxClock
    /\ clock' = clock + 1
    /\ UNCHANGED <<watch, ttt, snake_vars, create_vars, split_vars>>

\* "Start"
ClickStart ==
    /\ watch' = start(watch)
    /\ UNCHANGED <<clock, ttt, snake_vars, create_vars, split_vars>>

\* "Stop"
ClickStop ==
    /\ watch' = stop(watch)
    /\ UNCHANGED <<clock, ttt, snake_vars, create_vars, split_vars>>

\* "Reset"
ClickReset ==
    /\ watch' = reset(watch)
    /\ UNCHANGED <<clock, ttt, snake_vars, create_vars, split_vars>>

\* "Lap": the button is disabled unless the stopwatch is running
ClickLap ==
    /\ watch.running
    /\ Len(watch.laps) < MaxLaps
    /\ watch' = lap(watch)
    /\ UNCHANGED <<clock, ttt, snake_vars, create_vars, split_vars>>

NextStopwatch ==
    \/ Tick
    \/ ClickStart
    \/ ClickStop
    \/ ClickReset
    \/ ClickLap

SpecStopwatch == InitStopwatch /\ [][NextStopwatch]_vars

\* ------------------------------------------------------------ claims
\* the cell move_snake tries next
NextHead(g) == PosAdd(g.snake[1], g.direction)

\* the direction of the snake's latest step: from its neck to its head
\* (the initial snake lies as if it had stepped right)
TravelDirection(snake) ==
    CHOOSE d \in Directions : PosAdd(snake[2], d) = snake[1]

\* this step is a script run whose move_snake moved the snake
Moved == game'.moves_made = game.moves_made + 1

\* this step is a script run whose move_snake returned False
Collided == game.game_state = "playing" /\ game'.game_state = "game_over"

\* this step is a script run that called move_snake and came back: it is
\* the only step of a playing game that sets last_move_time and keeps the
\* instance
AutoMoved ==
    /\ pc = "idle" /\ pc' = "idle"
    /\ game.game_state = "playing"
    /\ last_move_time < now /\ last_move_time' = now
    /\ game'.start_time = game.start_time
    /\ game'.game_state # "paused"

\* C1: in every reachable state no two segments of the snake are on the
\* same cell.
C1_NoDuplicateSegments ==
    \A i, j \in 1..Len(game.snake) : i # j => game.snake[i] # game.snake[j]

\* C1 witness: a snake that has grown and turned back along its own body
C1_Witness ==
    /\ Len(game.snake) >= 4
    /\ game.moves_made >= 3
    /\ game.direction = "LEFT"
    /\ game.snake[1][2] # game.snake[Len(game.snake)][2]

\* C2: the direction a move applies is never the opposite of the direction
\* of the snake's previous move, whatever buttons were pressed in between.
C2_NoReversalApplied ==
    [][((Moved \/ Collided) /\ game.moves_made >= 1)
        => game.direction # opposite(TravelDirection(game.snake))]_vars

\* C3: a move that does not collide lengthens the snake by one when the
\* new head is on the food and leaves its length alone otherwise; within
\* one game the length never decreases.
C3_LengthGrowsByFood ==
    [][/\ Moved =>
            Len(game'.snake) = Len(game.snake)
                + (IF NextHead(game) = game.food THEN 1 ELSE 0)
       /\ \/ Len(game'.snake) >= Len(game.snake)
          \/ ClickNewGame]_vars

\* C3 witness: a game with moves that ate and moves that did not
C3_Witness ==
    /\ game.food_eaten >= 1
    /\ game.moves_made > game.food_eaten
    /\ Len(game.snake) = 3 + game.food_eaten

\* C4: between script runs the food is never on a snake segment: not at
\* creation, not after a consumption, not after any move.
C4_FoodOffSnake ==
    pc = "idle" => game.food \notin Segments(game.snake)

\* C4 witness: food placed again after a consumption
C4_Witness ==
    /\ pc = "idle"
    /\ game.game_state = "playing"
    /\ game.food_eaten >= 2

\* C5: a move whose new head is outside the board ends the game and
\* leaves snake, food, score, food_eaten and moves_made as they were.
C5_WallCollision ==
    [][(AutoMoved /\ NextHead(game) \notin Cells)
        => /\ game'.game_state = "game_over"
           /\ game'.snake = game.snake
           /\ game'.food = game.food
           /\ game'.score = game.score
           /\ game'.food_eaten = game.food_eaten
           /\ game'.moves_made = game.moves_made]_vars

\* C5 witness: a game that ended against a wall after it had scored
C5_Witness ==
    /\ game.game_state = "game_over"
    /\ NextHead(game) \notin Cells
    /\ game.score > 0

\* C6: a move whose new head is on a segment of the snake as it is before
\* the move, the tail cell included, ends the game and leaves snake, food
\* and score as they were.
C6_SelfCollision ==
    [][(AutoMoved /\ NextHead(game) \in Segments(game.snake))
        => /\ game'.game_state = "game_over"
           /\ game'.snake = game.snake
           /\ game'.food = game.food
           /\ game'.score = game.score]_vars

\* C6 witness: a game that ended with the head stepping onto the tail cell
C6_Witness ==
    /\ game.game_state = "game_over"
    /\ NextHead(game) = game.snake[Len(game.snake)]

\* C7: in every state between script runs, a run in which the button of
\* the direction opposite to the current one is pressed leaves behind
\* exactly what the same run leaves behind with no button pressed: the
\* direction and everything else stay as the auto-move, if one was due,
\* left them; with no move due the state is left as it was.
C7_OppositeIgnored ==
    pc = "idle" =>
        \A due \in DueNow :
            /\ \A o \in auto_move(game, stats, due) :
                   /\ o.game.direction = game.direction
                   /\ direction_button(o, opposite(game.direction)) = o
            /\ ~(game.game_state = "playing" /\ due) =>
                   auto_move(game, stats, due) =
                       {[game |-> game, stats |-> stats,
                         last_move_time |-> last_move_time, pc |-> "idle"]}

\* C7 witness: a playing snake that has turned and travels upwards, with
\* no move due; the "Down" button is live here and leads back to this
\* very state
C7_Witness ==
    /\ pc = "idle"
    /\ game.game_state = "playing"
    /\ game.direction = "UP"
    /\ TravelDirection(game.snake) = "UP"
    /\ last_move_time = now

\* C8: once the game is over, every step other than New Game leaves the
\* game and the all-time statistics as they are, and New Game leaves the
\* statistics as they are.
C8_GameOverIsTerminal ==
    [][game.game_state = "game_over"
        => /\ stats' = stats
           /\ game' = game \/ ClickNewGame]_vars

\* C8 witness: a game that has been over long enough for a move to be due
\* at every difficulty
C8_Witness ==
    /\ game.game_state = "game_over"
    /\ stats.games_played >= 1
    /\ DueNow = {TRUE}

\* C9: the game becomes paused only from playing, by a step that changes
\* nothing else; a paused game is left by Resume or New Game only, and
\* until then nothing of it, nor of the statistics, changes.
C9_PauseFreezes ==
    [][/\ (game'.game_state = "paused" /\ game.game_state # "paused")
            => /\ game.game_state = "playing"
               /\ game' = [game EXCEPT !.game_state = "paused"]
       /\ game.game_state = "paused"
            => \/ game' = game /\ stats' = stats
               \/ /\ game' = [game EXCEPT !.game_state = "playing"]
                  /\ stats' = stats
               \/ ClickNewGame
       /\ (game'.game_state = "playing" /\ game.game_state = "game_over")
            => ClickNewGame]_vars

\* C9 witness: a game with moves behind it, paused long enough for a move
\* to be due at every difficulty
C9_Witness ==
    /\ game.game_state = "paused"
    /\ game.moves_made >= 1
    /\ DueNow = {TRUE}

\* C10: score = 10 * food_eaten and length = 3 + food_eaten in every
\* state; within one game the score never decreases, and it changes only
\* by +10, in a move whose new head is on the food.
C10_ScoreFollowsFood ==
    /\ [](/\ game.score = 10 * game.food_eaten
          /\ Len(game.snake) = 3 + game.food_eaten)
    /\ [][\/ game'.score = game.score
          \/ /\ game'.score = game.score + 10
             /\ Moved
             /\ NextHead(game) = game.food
          \/ ClickNewGame]_vars

\* C10 witness: a game that has scored twice
C10_Witness ==
    /\ game.score = 20
    /\ game.food_eaten = 2

FreshInstance ==
    /\ game.game_state = "playing"
    /\ game.direction = "RIGHT"
    /\ game.score = 0
    /\ game.food_eaten = 0
    /\ game.moves_made = 0
    /\ Len(game.snake) >= 3
    /\ game.snake[1] = <<board_width \div 2, board_height \div 2>>
    /\ \A k \in 2..Len(game.snake) :
           game.snake[k] = <<game.snake[k - 1][1] - 1, game.snake[1][2]>>
    /\ game.food \notin Segments(game.snake)

\* C12: creation and New Game leave a fresh instance: playing, facing
\* right, score, food_eaten and moves_made 0, a snake of at least three
\* cells in a row on the middle row, head at (width div 2, height div 2)
\* and body to its left, and food off the snake, whatever the instance
\* that New Game replaces was like.
C12_FreshOnCreate ==
    /\ FreshInstance
    /\ [][ClickNewGame => FreshInstance']_vars

\* C12 witness: a fresh instance in the place of a game that had scored,
\* turned and ended
C12_Witness ==
    /\ FreshInstance
    /\ game.start_time = now
    /\ now >= 3
    /\ stats.games_played >= 1
    /\ stats.high_score >= 10

\* C13: food placement comes to an end: once the snake covers the whole
\* board the game is in a terminal state and no script run is still
\* looking for a free cell.
C13_FullBoardEndsGame ==
    Segments(game.snake) = Cells
        => pc = "idle" /\ game.game_state # "playing"

\* C14: a call of SnakeGame with a board narrower or lower than
\* initial_length + 2 ends with an error raised and no instance.
C14_SmallBoardRejected ==
    (/\ ctor # "call"
     /\ \/ config.board_width < config.initial_length + 2
        \/ config.board_height < config.initial_length + 2)
        => ctor = "ValueError" /\ instance = {}

\* C15: the elapsed game time does not advance while the game is paused.
C15_TimeStopsWhilePaused ==
    [][(game.game_state = "paused" /\ game'.game_state = "paused")
        => get_game_time(game)' = get_game_time(game)]_vars

\* the sum of the balances of res
sum_balances(res) ==
    LET F[k \in 0..Len(res)] ==
            IF k = 0 THEN 0 ELSE F[k - 1] + res[k].balance
    IN  F[Len(res)]

\* what participant k of results has paid and received in the transfers
paid_by(k) ==
    sum_amounts(SelectSeq(opt.transactions,
                          LAMBDA t : t.from = results[k].name))
received_by(k) ==
    sum_amounts(SelectSeq(opt.transactions,
                          LAMBDA t : t.to = results[k].name))

\* the balance of participant k once every transfer is applied: the
\* amount subtracted from the creditor's balance and added to the debtor's
balance_after(k) == results[k].balance + paid_by(k) - received_by(k)

within_tolerance(x) == -Tolerance <= x /\ x <= Tolerance

\* C16: when the balances sum to zero within the tolerance, the transfers
\* optimize_payments returns bring every balance to zero within the
\* tolerance.
C16_SettlesBalanced ==
    (/\ opt.pc = "done"
     /\ within_tolerance(sum_balances(results)))
        => \A k \in 1..Len(results) : within_tolerance(balance_after(k))

\* C17: when the balances do not sum to zero within the tolerance,
\* optimize_payments does not return a transfer list.
C17_UnbalancedRejected ==
    ~within_tolerance(sum_balances(results))
        => opt.pc # "done"

\* C18: the balances a split calculation hands to optimize_payments are a
\* closed system: the positive balances sum to what the negative ones sum
\* to in absolute value.
C18_ClosedSystem ==
    opt.pc # "idle"
        => sum_balances(SelectSeq(results, LAMBDA r : r.balance > 0))
               = -sum_balances(SelectSeq(results, LAMBDA r : r.balance < 0))

\* C19: optimize_payments returns at most (number of participants - 1)
\* transfers.
C19_TransferCount ==
    opt.pc = "done" => Len(opt.transactions) <= Len(results) - 1

\* C19, amended: with at least one participant optimize_payments never
\* holds more than (number of participants - 1) transfers; with no
\* participant it holds none.
C19_TransferCountNonEmpty ==
    /\ Len(results) >= 1 => Len(opt.transactions) <= Len(results) - 1
    /\ Len(results) = 0 => Len(opt.transactions) = 0

\* C19 witness: three participants or more, settled with one transfer
\* fewer than there are participants
C19_Witness ==
    /\ opt.pc = "done"
    /\ Len(results) >= 3
    /\ Len(opt.transactions) = Len(results) - 1

\* C20: every transfer has an amount above 0 and goes from a participant
\* with a negative balance to one with a positive balance; no debtor pays
\* more in total than the debt, no creditor receives more than the credit
\* (and nobody else pays or receives anything).
C20_NoMoneyInvented ==
    /\ \A n \in 1..Len(opt.transactions) :
           LET t == opt.transactions[n]
           IN  /\ t.amount > 0
               /\ \E k \in 1..Len(results) :
                      results[k].name = t.from /\ results[k].balance < 0
               /\ \E k \in 1..Len(results) :
                      results[k].name = t.to /\ results[k].balance > 0
    /\ \A k \in 1..Len(results) :
           /\ paid_by(k) <= (IF results[k].balance < 0
                             THEN -results[k].balance ELSE 0)
           /\ received_by(k) <= (IF results[k].balance > 0
                                 THEN results[k].balance ELSE 0)

\* C20 witness: a debtor who has paid the whole debt in two transfers, to
\* two creditors
C20_Witness ==
    /\ opt.pc = "done"
    /\ Len(opt.transactions) = 2
    /\ opt.transactions[1].from = opt.transactions[2].from
    /\ opt.transactions[1].to # opt.transactions[2].to
    /\ \E k \in 1..Len(results) :
           /\ results[k].name = opt.transactions[1].from
           /\ paid_by(k) = -results[k].balance

\* the balances once the returned transfers are applied
balances_after ==
    [k \in 1..Len(results) |->
        [name |-> results[k].name, balance |-> balance_after(k)]]

\* C21: optimize_payments returns the empty list for no participants and
\* for balances that are all zero, and it returns the empty list again
\* when it is run on the balances left by applying what it returned.
C21_TriviallySettled ==
    opt.pc = "done" =>
        /\ (\A k \in 1..Len(results) : results[k].balance = 0)
               => opt.transactions = <<>>
        /\ optimize_payments(balances_after) = <<>>

\* C21 witness: a result of two transfers or more that brings every
\* balance to zero
C21_Witness ==
    /\ opt.pc = "done"
    /\ Len(opt.transactions) >= 2
    /\ \A k \in 1..Len(results) : balance_after(k) = 0

\* the creditors and the debtors among the participants of results:
\* those with a balance above the tolerance, below minus the tolerance
creditor_indices == {k \in 1..Len(results) : results[k].balance > Tolerance}
debtor_indices == {k \in 1..Len(results) : results[k].balance < -Tolerance}

\* the transfers are one from each debtor, of the whole debt each,
\* largest first
one_transfer_per_debtor ==
    /\ Len(opt.transactions) = Cardinality(debtor_indices)
    /\ \A k \in debtor_indices :
           \E n \in 1..Len(opt.transactions) :
               /\ opt.transactions[n].from = results[k].name
               /\ opt.transactions[n].amount = -results[k].balance
    /\ \A n \in 1..(Len(opt.transactions) - 1) :
           opt.transactions[n].amount >= opt.transactions[n + 1].amount

\* the transfers are one to each creditor, of the whole credit each,
\* largest first
one_transfer_per_creditor ==
    /\ Len(opt.transactions) = Cardinality(creditor_indices)
    /\ \A k \in creditor_indices :
           \E n \in 1..Len(opt.transactions) :
               /\ opt.transactions[n].to = results[k].name
               /\ opt.transactions[n].amount = results[k].balance
    /\ \A n \in 1..(Len(opt.transactions) - 1) :
           opt.transactions[n].amount >= opt.transactions[n + 1].amount

\* C22: for balances that sum to zero with exactly one creditor,
\* optimize_payments returns one transfer from each debtor, of the whole
\* debt, largest first; with exactly one debtor, one transfer to each
\* creditor, of the whole credit, largest first.
C22_SingleCounterparty ==
    (opt.pc = "done" /\ sum_balances(results) = 0) =>
        /\ Cardinality(creditor_indices) = 1 => one_transfer_per_debtor
        /\ Cardinality(debtor_indices) = 1 => one_transfer_per_creditor

\* C23: the loop of optimize_payments ends, and for balances that sum to
\* zero it ends with both lists exhausted: no debtor and no creditor is
\* left unprocessed.
C23_ExhaustedTogether ==
    (opt.pc = "done" /\ sum_balances(results) = 0)
        => opt.i = Len(opt.debtors) /\ opt.j = Len(opt.creditors)

\* the amount the entry e of debtors or creditors came in with
input_amount(e) ==
    LET k == CHOOSE n \in 1..Len(results) : results[n].name = e.name
    IN  IF results[k].balance < 0 THEN -results[k].balance
        ELSE results[k].balance

\* C24: in every pass of the loop the debtor and the creditor that are
\* paired have the largest remaining amount among the debtors, among the
\* creditors, that are not yet settled.
C24_LargestRemainingPaired ==
    (opt.pc = "loop" /\ loop_test(opt)) =>
        /\ \A k \in (opt.i + 1)..Len(opt.debtors) :
               opt.debtors[opt.i + 1].amount >= opt.debtors[k].amount
        /\ \A k \in (opt.j + 1)..Len(opt.creditors) :
               opt.creditors[opt.j + 1].amount >= opt.creditors[k].amount

\* C24, amended: in every pass of the loop the debtor and the creditor
\* that are paired are, among those not yet settled, the ones that came
\* in with the largest amount; the entries behind them are untouched, and
\* the paired ones hold what is left of theirs, which can be less than
\* the amount of the entry behind.
C24_LargestInputPaired ==
    (opt.pc = "loop" /\ loop_test(opt)) =>
        /\ \A k \in (opt.i + 2)..Len(opt.debtors) :
               /\ input_amount(opt.debtors[opt.i + 1])
                      >= opt.debtors[k].amount
               /\ opt.debtors[k].amount = input_amount(opt.debtors[k])
        /\ \A k \in (opt.j + 2)..Len(opt.creditors) :
               /\ input_amount(opt.creditors[opt.j + 1])
                      >= opt.creditors[k].amount
               /\ opt.creditors[k].amount = input_amount(opt.creditors[k])
        /\ opt.debtors[opt.i + 1].amount
               <= input_amount(opt.debtors[opt.i + 1])
        /\ opt.creditors[opt.j + 1].amount
               <= input_amount(opt.creditors[opt.j + 1])

\* C24 witness: a pass that pairs a partly paid debtor whose remainder is
\* less than the debt of the debtor behind
C24_Witness ==
    /\ opt.pc = "loop"
    /\ loop_test(opt)
    /\ opt.i + 2 <= Len(opt.debtors)
    /\ opt.debtors[opt.i + 1].amount < opt.debtors[opt.i + 2].amount

\* the place of the entry e of debtors or creditors in the input
input_index(e) == CHOOSE n \in 1..Len(results) : results[n].name = e.name

\* the list xs holds the participants ks, once each, by descending input
\* amount, those of equal amount in input order
in_processing_order(xs, ks) ==
    /\ Len(xs) = Cardinality(ks)
    /\ \A k \in ks : \E a \in 1..Len(xs) : xs[a].name = results[k].name
    /\ \A a, b \in 1..Len(xs) :
           a < b =>
               \/ input_amount(xs[a]) > input_amount(xs[b])
               \/ /\ input_amount(xs[a]) = input_amount(xs[b])
                  /\ input_index(xs[a]) < input_index(xs[b])

\* the place of the name in the list xs
place(xs, name) == CHOOSE a \in 1..Len(xs) : xs[a].name = name

\* C25: debtors and creditors are processed by descending amount, those
\* of equal amount in input order: the lists are in that order, the
\* transfers follow the lists, and the list returned is the one function
\* of the ordered input.
C25_ProcessingOrder ==
    opt.pc \in {"loop", "done"} =>
        /\ in_processing_order(opt.debtors, debtor_indices)
        /\ in_processing_order(opt.creditors, creditor_indices)
        /\ \A n \in 1..(Len(opt.transactions) - 1) :
               LET t == opt.transactions[n]
                   u == opt.transactions[n + 1]
               IN  /\ place(opt.debtors, t.from)
                          <= place(opt.debtors, u.from)
                   /\ place(opt.creditors, t.to)
                          <= place(opt.creditors, u.to)
        /\ opt.pc = "done" => opt.transactions = optimize_payments(results)

\* C25 witness: two debtors of equal debt, both paid, and two creditors
\* of which the one that came later in the input, the larger, is first
C25_Witness ==
    /\ opt.pc = "done"
    /\ Len(opt.debtors) = 2
    /\ opt.i = 2
    /\ input_amount(opt.debtors[1]) = input_amount(opt.debtors[2])
    /\ Len(opt.creditors) = 2
    /\ input_index(opt.creditors[1]) > input_index(opt.creditors[2])

\* C26: the all-time statistics start at zero and change only in the step
\* in which a game ends by collision: that step adds 1 to games_played and
\* the game's food and moves to the totals, and leaves high_score at the
\* larger of its old value and the final score; every other step, New
\* Game on an unfinished game included, leaves the statistics alone.
C26_StatsOncePerGame ==
    /\ stats.games_played = 0 /\ stats.high_score = 0
    /\ [][IF Collided
          THEN /\ stats'.games_played = stats.games_played + 1
               /\ stats'.high_score =
                      (IF game'.score > stats.high_score
                       THEN game'.score ELSE stats.high_score)
               /\ stats'.food_eaten = stats.food_eaten + game'.food_eaten
               /\ stats'.moves_made = stats.moves_made + game'.moves_made
          ELSE stats' = stats]_vars

\* C26 witness: two games ended, the second with less than the high
\* score, and a third begun
C26_Witness ==
    /\ stats.games_played = 2
    /\ stats.high_score = 10
    /\ stats.food_eaten = 1
    /\ game.game_state = "playing"

\* C27: the run in which a game ends with a score above the high score
\* held until then shows the "New High Score" notice.
C27_NewHighScoreShown ==
    [][(Collided /\ game'.score > stats.high_score)
        => new_high_score_notice(game', stats')]_vars

\* the number of marks of symbol v on the board
marks(v) == Cardinality({idx \in 0..8 : ttt.board[idx] = v})

\* C28: in every reachable state there are as many X as O on the board,
\* or one X more; while the game is not over it is X's turn exactly when
\* there are as many; and place_move on an occupied cell, or on any cell
\* once the game is over, leaves the session as it is.
C28_TurnsAlternate ==
    /\ marks("X") - marks("O") \in {0, 1}
    /\ ~ttt.game_over => (ttt.current = "X" <=> marks("X") = marks("O"))
    /\ \A idx \in 0..8 :
           (ttt.game_over \/ ttt.board[idx] # "")
               => place_move(ttt, idx) = ttt

\* C28 witness: the computer, playing X, has answered in a second round
\* and the game goes on
C28_Witness ==
    /\ ttt.mode = "Vs Computer (Random)"
    /\ ttt.computer_symbol = "X"
    /\ ttt.scores["O"] = 1
    /\ ~ttt.game_over
    /\ marks("X") = 3
    /\ marks("O") = 2

\* the win lines held by one symbol
lines_won ==
    {n \in 1..Len(WIN_LINES) :
        /\ ttt.board[WIN_LINES[n][1]] \in Symbols
        /\ ttt.board[WIN_LINES[n][2]] = ttt.board[WIN_LINES[n][1]]
        /\ ttt.board[WIN_LINES[n][3]] = ttt.board[WIN_LINES[n][1]]}

\* C29: in every reachable state the game is over exactly when a win line
\* is held by one symbol or the board is full; every line held is held by
\* the winner, and there is no winner when no line is held, the ninth
\* mark completing a line being a win; the scores change only by 1 for
\* the winner in the step that wins a round, and to zero by Reset Scores;
\* reset_board leaves the scores alone unless it is hard.
C29_WinnerAndScores ==
    /\ [](/\ ttt.game_over <=>
                 (lines_won # {} \/ \A idx \in 0..8 : ttt.board[idx] # "")
          /\ \A n \in lines_won : ttt.board[WIN_LINES[n][1]] = ttt.winner
          /\ lines_won = {} => ttt.winner = "None"
          /\ reset_board(ttt, FALSE).scores = ttt.scores
          /\ reset_board(ttt, TRUE).scores = [X |-> 0, O |-> 0])
    /\ [][IF ~ttt.game_over /\ ttt'.game_over /\ ttt'.winner # "None"
          THEN ttt'.scores =
                   [ttt.scores EXCEPT ![ttt'.winner] = @ + 1]
          ELSE \/ ttt'.scores = ttt.scores
               \/ /\ ttt'.scores = [X |-> 0, O |-> 0]
                  /\ ttt' = reset_board(ttt, TRUE)]_vars

\* C29 witness: O has won a round before, and X wins this one with the
\* ninth mark
C29_Witness ==
    /\ ttt.game_over
    /\ ttt.winner = "X"
    /\ marks("X") = 5
    /\ marks("O") = 4
    /\ ttt.scores = [X |-> 1, O |-> 1]

\* C30: the elapsed time is the time spent running since the last reset:
\* it starts at 0; a step that is not Reset adds to it the time that
\* passes in the step if the stopwatch is running and nothing if it is
\* stopped; Start on a running and Stop on a stopped stopwatch change
\* nothing; Reset leaves elapsed 0, not running and no laps.
C30_ElapsedIsRunningTime ==
    /\ now_elapsed(watch) = 0 /\ ~watch.running /\ watch.laps = <<>>
    /\ [][/\ ClickReset
               => /\ now_elapsed(watch)' = 0
                  /\ ~watch'.running
                  /\ watch'.laps = <<>>
          /\ ~ClickReset
               => now_elapsed(watch)' =
                      now_elapsed(watch)
                          + (IF watch.running THEN clock' - clock ELSE 0)
          /\ (ClickStart /\ watch.running) => watch' = watch
          /\ (ClickStop /\ ~watch.running) => watch' = watch]_vars

\* C30 witness: running for the second time since the last reset, with
\* time spent stopped in between and a lap taken
C30_Witness ==
    /\ watch.running
    /\ watch.elapsed_fixed >= 1
    /\ watch.laps # <<>>
    /\ now_elapsed(watch) > watch.elapsed_fixed
    /\ now_elapsed(watch) < clock

====
